---- MODULE Spec2Model ----
(***************************************************************************)
(* Model of the MidJourney service pool, api/service/mj/pool.go:           *)
(* pool construction, the shared task and notify queues, the notification  *)
(* fan-out loop (CheckTaskNotify), the artifact archival loop              *)
(* (DownloadImages) and the progress reconciliation loop                   *)
(* (SyncTaskProgress), together with the store rows and the live           *)
(* connections they read and write.                                        *)
(***************************************************************************)
EXTENDS Integers, Sequences, FiniteSets, TLC

(***************************************************************************)
(* Bounds of the model.                                                    *)
(***************************************************************************)
\* job rows ever inserted (ids 1..MaxJobs, never reused)
MaxJobs == 2
\* tasks ever pushed
MaxTasks == 2
\* capacity after which producers of the notify queue wait
MaxQueue == 1
\* failing store / storage / socket calls in one behaviour
MaxFailures == 1
\* entries per configuration list in the construction specification
MaxConfigs == 2

(***************************************************************************)
(* Program constants.                                                      *)
(***************************************************************************)
\* time.Minute*30, the timeout budget of a job, in minutes
TimeoutBudget == 30
\* the progress value of a finished job
ProgressDone == 100
\* the progress value of a failed job
ProgressFailed == -1
\* the balance the existing user starts with
InitPower == 50

PowerConsume == "consume"
PowerAdd == "add"
ModelTag == "mid-journey"
Finished == "FINISHED"
Running == "RUNNING"
OrgImage == "https://x/img.png"
PrivateImage == "oss://private/img.png"
PublicImage == "oss://public/img.png"
ButtonHash == "hash-of-button-0"

UserIds == {1, 2}
\* user 1 has a row in the users table, user 2 has none (removed account)
ExistingUsers == {1}
Powers == {10}
\* the instants the clock shows: a job inserted at 0 is then exactly
\* TimeoutBudget old, and then older
Instants == {0, TimeoutBudget, TimeoutBudget + 1}
\* the instants at which jobs are submitted
InsertInstants == {0}
Nil == <<>>

VARIABLES
    cfg,          \* appConfig: [plus: MjPlusConfigs, proxy: MjProxyConfigs]
    services,     \* p.services, the names of the registered workers
    taskQueue,    \* MidJourney_Task_Queue
    notifyQueue,  \* MidJourney_Notify_Queue
    nextTask,     \* id of the next task a caller pushes
    delivered,    \* the tasks each worker has popped, in order
    jobs,         \* the MidJourneyJob rows, by id
    nextJob,      \* the auto-increment id of the next job row
    balance,      \* users.power, by user id
    powerLogs,    \* the PowerLog rows, in insertion order
    Clients,      \* p.Clients: the user ids with a live connection
    now,          \* time.Now(), minutes
    failures,     \* failed external calls so far
    syncPc,       \* position of the SyncTaskProgress goroutine: "scan" at
                  \* the top of the loop at start or after the sleep, "retry"
                  \* at the top through continue, "loop" at the range,
                  \* "refund", "first", "create" before those store calls
    syncItems,    \* the items of this pass from the current one on
    syncUser,     \* its local user, between First and Create
    dlPc,         \* position of the DownloadImages goroutine: "scan",
                  \* "retry", "loop" likewise, "failed" in the error branch
                  \* of PutImg, "update" before Updates, "notify" before
                  \* Clients.Get, "send" with the connection found, before
                  \* Send, "sent" after Send
    dlItems,      \* the items of this pass from the current one on
    wsSent,       \* the messages the archival iteration handed to cli.Send
    notifyPc,     \* position of the CheckTaskNotify goroutine: "pop" before
                  \* LPop, "get" before Clients.Get, "send" with the
                  \* connection found, before Send
    message       \* its local message, from LPop on

vars == <<cfg, services, taskQueue, notifyQueue, nextTask, delivered, jobs,
          nextJob, balance, powerLogs, Clients, now, failures, syncPc,
          syncItems, syncUser, dlPc, dlItems, wsSent, notifyPc, message>>

poolVars == <<cfg, services>>
queueVars == <<taskQueue, nextTask, delivered>>
storeVars == <<jobs, nextJob, balance, powerLogs>>
syncVars == <<syncPc, syncItems, syncUser>>
dlVars == <<dlPc, dlItems, wsSent>>
notifyVars == <<notifyPc, message>>

(***************************************************************************)
(* Pool construction.                                                      *)
(***************************************************************************)
ConfigEntries == [Enabled : BOOLEAN, ValidApiURL : BOOLEAN]

SeqsUpTo(S, n) == UNION {[1..k -> S] : k \in 0..n}

PlusName(k) == <<"mj-plus-service", k>>
ProxyName(k) == <<"mj-proxy-service", k>>

\* a first loop that gives up at the first entry failing validation
RECURSIVE PlusServicesAborting(_, _)
PlusServicesAborting(configs, i) ==
    IF i > Len(configs) THEN <<>>
    ELSE IF configs[i].Enabled = FALSE THEN PlusServicesAborting(configs, i + 1)
    ELSE IF ~configs[i].ValidApiURL THEN <<>>
    ELSE <<PlusName(i - 1)>> \o PlusServicesAborting(configs, i + 1)
\* the first loop of NewServicePool, from entry i on (k = i - 1 in the code)
RECURSIVE PlusServices(_, _)
PlusServices(configs, i) ==
    IF i > Len(configs) THEN <<>>
    ELSE IF configs[i].Enabled = FALSE THEN PlusServices(configs, i + 1)
    ELSE IF ~configs[i].ValidApiURL THEN PlusServices(configs, i + 1)
    ELSE <<PlusName(i - 1)>> \o PlusServices(configs, i + 1)

\* the second loop of NewServicePool: no URL validation for proxy entries
RECURSIVE ProxyServices(_, _)
ProxyServices(configs, i) ==
    IF i > Len(configs) THEN <<>>
    ELSE IF configs[i].Enabled = FALSE THEN ProxyServices(configs, i + 1)
    ELSE <<ProxyName(i - 1)>> \o ProxyServices(configs, i + 1)

NewServicePool(appConfig) ==
    PlusServices(appConfig.plus, 1) \o ProxyServices(appConfig.proxy, 1)

HasAvailableServiceNonNegative == Len(services) >= 0
HasAvailableService == Len(services) > 0

RECURSIVE getServiceFrom(_, _)
getServiceFrom(name, i) ==
    IF i > Len(services) THEN Nil
    ELSE IF services[i] = name THEN services[i]
    ELSE getServiceFrom(name, i + 1)

\* a lookup that falls back on the first worker when the name is not found
getServiceOrFirst(name) ==
    IF getServiceFrom(name, 1) # Nil THEN getServiceFrom(name, 1)
    ELSE IF services # <<>> THEN services[1]
    ELSE Nil
getService(name) == getServiceFrom(name, 1)

ChannelIds == {PlusName(0), ProxyName(0)}

(***************************************************************************)
(* Rows and snapshots.                                                     *)
(***************************************************************************)

\* an external call answers or fails; a failure is counted against MaxFailures
Outcomes == {"ok", "err"}
Cost(o) == IF o = "err" THEN 1 ELSE 0

\* the orders in which a SELECT without ORDER BY can return the rows ids
Orders(ids) ==
    {o \in [1..Cardinality(ids) -> ids] :
        \A i, j \in DOMAIN o : i # j => o[i] # o[j]}

\* Find(&items): the selected rows, in any order the store returns them
Find(rows, ids) == {[i \in DOMAIN o |-> rows[o[i]]] : o \in Orders(ids)}

\* db.Delete(&job): DELETE ... WHERE id = job.Id
DeleteRow(rows, id) == [i \in DOMAIN rows \ {id} |-> rows[i]]

\* db.Updates(&v): UPDATE of the non-zero fields of v WHERE id = v.Id
Updates(rows, v) ==
    IF v.Id \notin DOMAIN rows THEN rows
    ELSE [rows EXCEPT ![v.Id] =
            [Id |-> @.Id,
             UserId |-> IF v.UserId # 0 THEN v.UserId ELSE @.UserId,
             Power |-> IF v.Power # 0 THEN v.Power ELSE @.Power,
             Progress |-> IF v.Progress # 0 THEN v.Progress ELSE @.Progress,
             ChannelId |-> IF v.ChannelId # Nil THEN v.ChannelId ELSE @.ChannelId,
             OrgURL |-> IF v.OrgURL # "" THEN v.OrgURL ELSE @.OrgURL,
             ImgURL |-> IF v.ImgURL # "" THEN v.ImgURL ELSE @.ImgURL,
             Hash |-> IF v.Hash # "" THEN v.Hash ELSE @.Hash,
             CreatedAt |-> v.CreatedAt]]

(***************************************************************************)
(* The callers and collaborators of the pool.                              *)
(***************************************************************************)
\* the API layer inserts the job row of a submitted task
CreateJob ==
    /\ nextJob <= MaxJobs
    /\ now \in InsertInstants
    /\ \E u \in UserIds, p \in Powers, ch \in ChannelIds :
         jobs' = [i \in DOMAIN jobs \cup {nextJob} |->
                    IF i = nextJob
                    THEN [Id |-> nextJob, UserId |-> u, Power |-> p,
                          Progress |-> 0, ChannelId |-> ch, OrgURL |-> "",
                          ImgURL |-> "", Hash |-> "", CreatedAt |-> now]
                    ELSE jobs[i]]
    /\ nextJob' = nextJob + 1
    /\ UNCHANGED <<balance, powerLogs, Clients, now, failures, notifyQueue>>
    /\ UNCHANGED <<poolVars, queueVars, syncVars, dlVars, notifyVars>>

\* a worker (or a connector callback) writes the outcome of a running job:
\* finished with or without an original image, or failed
JobProgress ==
    /\ \E j \in DOMAIN jobs :
         /\ jobs[j].Progress \notin {ProgressDone, ProgressFailed}
         /\ \/ \E org \in {"", OrgImage} :
                 jobs' = [jobs EXCEPT ![j].Progress = ProgressDone,
                                      ![j].OrgURL = org]
            \/ jobs' = [jobs EXCEPT ![j].Progress = ProgressFailed]
    /\ UNCHANGED <<nextJob, balance, powerLogs, Clients, now, failures, notifyQueue>>
    /\ UNCHANGED <<poolVars, queueVars, syncVars, dlVars, notifyVars>>

\* a client connects or disconnects: p.Clients.Put / p.Clients.Delete; only a
\* user with an account holds a connection
Connect ==
    /\ \E u \in ExistingUsers \ Clients : Clients' = Clients \cup {u}
    /\ UNCHANGED <<storeVars, now, failures, notifyQueue>>
    /\ UNCHANGED <<poolVars, queueVars, syncVars, dlVars, notifyVars>>

Disconnect ==
    /\ \E u \in Clients : Clients' = Clients \ {u}
    /\ UNCHANGED <<storeVars, now, failures, notifyQueue>>
    /\ UNCHANGED <<poolVars, queueVars, syncVars, dlVars, notifyVars>>

\* time passes
Tick ==
    /\ \E t \in Instants :
         /\ t > now
         /\ \A x \in Instants : x > now => t <= x
         /\ now' = t
    /\ UNCHANGED <<storeVars, Clients, failures, notifyQueue>>
    /\ UNCHANGED <<poolVars, queueVars, syncVars, dlVars, notifyVars>>

(***************************************************************************)
(* SyncTaskProgress: the progress reconciliation loop.  One action per     *)
(* store call; the goroutine holds no lock, so the other goroutines run    *)
(* between any two of them.  Head(syncItems) is the loop variable job.     *)
(***************************************************************************)
IsExpiredByAgeOnly(job, t) == t - job.CreatedAt > TimeoutBudget
\* an expiry test that fires at the budget, not past it
IsExpiredAtBudget(job, t) ==
    t - job.CreatedAt >= TimeoutBudget \/ job.Progress = ProgressFailed
IsExpired(job, t) ==
    t - job.CreatedAt > TimeoutBudget \/ job.Progress = ProgressFailed

\* the PowerLog row of a refund; user is the row First read (the zero value
\* when First failed)
RefundLog(user, job) ==
    [UserId |-> user.Id, Type |-> PowerConsume, Amount |-> job.Power,
     Balance |-> user.Power + job.Power, Mark |-> PowerAdd,
     Model |-> ModelTag, TaskId |-> job.Id]

\* var user model.User before First fills it
ZeroUser == [Id |-> 0, Power |-> 0]

\* servicePlus.Notify(job): the worker pushes a progress notification for the
\* owner of the job on the notify queue
Notify(queue, job) == Append(queue, [UserId |-> job.UserId, Message |-> Running])

\* db.Where("progress < ?", 100).Find(&items)
SyncScan ==
    /\ syncPc \in {"scan", "retry"}
    /\ \E res \in Outcomes :
         /\ failures + Cost(res) <= MaxFailures
         /\ failures' = failures + Cost(res)
         /\ IF res = "err"
            THEN \* continue: back at the top of the loop, past the sleep
                 /\ syncPc' = "retry"
                 /\ UNCHANGED syncItems
            ELSE /\ syncPc' = "loop"
                 /\ syncItems' \in
                      Find(jobs, {i \in DOMAIN jobs : jobs[i].Progress < ProgressDone})
    /\ UNCHANGED <<storeVars, Clients, now, notifyQueue, syncUser>>
    /\ UNCHANGED <<poolVars, queueVars, dlVars, notifyVars>>

\* the expiry test holds for job: p.db.Delete(&job), result not consulted
SyncDelete ==
    /\ syncPc = "loop"
    /\ syncItems # <<>>
    /\ IsExpired(Head(syncItems), now)
    /\ \E del \in Outcomes :
         /\ failures + Cost(del) <= MaxFailures
         /\ failures' = failures + Cost(del)
         /\ jobs' = IF del = "ok" THEN DeleteRow(jobs, Head(syncItems).Id) ELSE jobs
    /\ syncPc' = "refund"
    /\ UNCHANGED <<nextJob, balance, powerLogs, Clients, now, notifyQueue>>
    /\ UNCHANGED <<syncItems, syncUser>>
    /\ UNCHANGED <<poolVars, queueVars, dlVars, notifyVars>>

\* UpdateColumn("power", power + job.Power) on the owner's row, and the test
\* tx.Error == nil && tx.RowsAffected > 0
SyncRefund ==
    /\ syncPc = "refund"
    /\ \E inc \in Outcomes :
         LET job == Head(syncItems)
             landed == inc = "ok" /\ job.UserId \in DOMAIN balance
         IN /\ failures + Cost(inc) <= MaxFailures
            /\ failures' = failures + Cost(inc)
            /\ IF landed
               THEN /\ balance' = [balance EXCEPT ![job.UserId] = @ + job.Power]
                    /\ syncPc' = "first"
                    /\ UNCHANGED syncItems
               ELSE \* continue
                    /\ syncPc' = "loop"
                    /\ syncItems' = Tail(syncItems)
                    /\ UNCHANGED balance
    /\ UNCHANGED <<jobs, nextJob, powerLogs, Clients, now, notifyQueue, syncUser>>
    /\ UNCHANGED <<poolVars, queueVars, dlVars, notifyVars>>

\* p.db.Where("id = ?", job.UserId).First(&user), result not consulted
SyncFirst ==
    /\ syncPc = "first"
    /\ \E res \in Outcomes :
         /\ failures + Cost(res) <= MaxFailures
         /\ failures' = failures + Cost(res)
         /\ syncUser' =
              IF res = "ok" /\ Head(syncItems).UserId \in DOMAIN balance
              THEN [Id |-> Head(syncItems).UserId,
                    Power |-> balance[Head(syncItems).UserId]]
              ELSE ZeroUser
    /\ syncPc' = "create"
    /\ UNCHANGED <<storeVars, Clients, now, notifyQueue, syncItems>>
    /\ UNCHANGED <<poolVars, queueVars, dlVars, notifyVars>>

\* p.db.Create(&model.PowerLog{...}), result not consulted; continue
SyncCreate ==
    /\ syncPc = "create"
    /\ \E res \in Outcomes :
         /\ failures + Cost(res) <= MaxFailures
         /\ failures' = failures + Cost(res)
         /\ powerLogs' = IF res = "ok"
                         THEN Append(powerLogs, RefundLog(syncUser, Head(syncItems)))
                         ELSE powerLogs
    /\ syncPc' = "loop"
    /\ syncItems' = Tail(syncItems)
    /\ syncUser' = Nil
    /\ UNCHANGED <<jobs, nextJob, balance, Clients, now, notifyQueue>>
    /\ UNCHANGED <<poolVars, queueVars, dlVars, notifyVars>>

\* the expiry test fails for job: getService, and Notify when a worker is found
SyncNotify ==
    /\ syncPc = "loop"
    /\ syncItems # <<>>
    /\ ~IsExpired(Head(syncItems), now)
    /\ IF getService(Head(syncItems).ChannelId) # Nil
       THEN /\ Len(notifyQueue) < MaxQueue
            /\ notifyQueue' = Notify(notifyQueue, Head(syncItems))
       ELSE UNCHANGED notifyQueue
    /\ syncItems' = Tail(syncItems)
    /\ UNCHANGED <<storeVars, Clients, now, failures, syncPc, syncUser>>
    /\ UNCHANGED <<poolVars, queueVars, dlVars, notifyVars>>

\* the range is exhausted: time.Sleep(time.Second * 10), then the next pass
SyncSleep ==
    /\ syncPc = "loop"
    /\ syncItems = <<>>
    /\ syncPc' = "scan"
    /\ UNCHANGED <<storeVars, Clients, now, failures, notifyQueue>>
    /\ UNCHANGED <<syncItems, syncUser>>
    /\ UNCHANGED <<poolVars, queueVars, dlVars, notifyVars>>

(***************************************************************************)
(* DownloadImages: the artifact archival loop.  Head(dlItems) is the loop  *)
(* variable v: the iteration sets v.Hash and v.ImgURL on it.  QueryTask    *)
(* and PutImg touch no state of the pool and make one action; Updates,     *)
(* Clients.Get and Send are one action each.  The connection Get found is  *)
(* the one of v.UserId: the position "send" stands for the local cli.      *)
(***************************************************************************)
\* db.Where("img_url = ? AND progress = ?", "", 100).Find(&items)
DlScan ==
    /\ dlPc \in {"scan", "retry"}
    /\ \E res \in Outcomes :
         /\ failures + Cost(res) <= MaxFailures
         /\ failures' = failures + Cost(res)
         /\ IF res = "err"
            THEN \* continue: back at the top of the loop, past the sleep
                 /\ dlPc' = "retry"
                 /\ UNCHANGED dlItems
            ELSE /\ dlPc' = "loop"
                 /\ dlItems' \in
                      Find(jobs, {i \in DOMAIN jobs :
                                    jobs[i].ImgURL = "" /\ jobs[i].Progress = ProgressDone})
    /\ UNCHANGED <<storeVars, Clients, now, notifyQueue, wsSent>>
    /\ UNCHANGED <<poolVars, queueVars, syncVars, notifyVars>>

\* if v.OrgURL == "" { continue }
DlSkip ==
    /\ dlPc = "loop"
    /\ dlItems # <<>>
    /\ Head(dlItems).OrgURL = ""
    /\ dlItems' = Tail(dlItems)
    /\ UNCHANGED <<storeVars, Clients, now, failures, notifyQueue, dlPc, wsSent>>
    /\ UNCHANGED <<poolVars, queueVars, syncVars, notifyVars>>

\* PutImg(v.OrgURL, useProxy): the archived location of the image
PutImg(orgURL, public) == IF public THEN PublicImage ELSE PrivateImage

\* getService, QueryTask and the hash when a worker is found, then PutImg
DlPutImg ==
    /\ dlPc = "loop"
    /\ dlItems # <<>>
    /\ Head(dlItems).OrgURL # ""
    /\ \E buttons \in BOOLEAN, put \in Outcomes :
         LET v == Head(dlItems)
             servicePlus == getService(v.ChannelId)
             hashed == IF servicePlus # Nil /\ buttons
                       THEN [v EXCEPT !.Hash = ButtonHash] ELSE v
             stored == [hashed EXCEPT
                          !.ImgURL = PutImg(v.OrgURL, servicePlus = Nil)]
         IN /\ servicePlus = Nil => ~buttons
            /\ failures + Cost(put) <= MaxFailures
            /\ failures' = failures + Cost(put)
            /\ IF put = "err"
               THEN /\ dlPc' = "failed"
                    /\ dlItems' = <<hashed>> \o Tail(dlItems)
               ELSE \* v.ImgURL = imgURL
                    /\ dlPc' = "update"
                    /\ dlItems' = <<stored>> \o Tail(dlItems)
    /\ UNCHANGED <<storeVars, Clients, now, notifyQueue, wsSent>>
    /\ UNCHANGED <<poolVars, queueVars, syncVars, notifyVars>>

\* the rows after a failed archive call: "continue", nothing is written and the
\* hash stays in the loop's copy v
AfterArchiveFailurePersisting(rows, v) == Updates(rows, v)
AfterArchiveFailure(rows, v) == rows

\* err != nil: logger.Errorf and continue
DlFailed ==
    /\ dlPc = "failed"
    /\ jobs' = AfterArchiveFailure(jobs, Head(dlItems))
    /\ dlPc' = "loop"
    /\ dlItems' = Tail(dlItems)
    /\ UNCHANGED <<nextJob, balance, powerLogs, Clients, now, failures>>
    /\ UNCHANGED <<notifyQueue, wsSent>>
    /\ UNCHANGED <<poolVars, queueVars, syncVars, notifyVars>>

\* p.db.Updates(&v), result not consulted
DlUpdates ==
    /\ dlPc = "update"
    /\ \E upd \in Outcomes :
         /\ failures + Cost(upd) <= MaxFailures
         /\ failures' = failures + Cost(upd)
         /\ jobs' = IF upd = "ok" THEN Updates(jobs, Head(dlItems)) ELSE jobs
    /\ dlPc' = "notify"
    /\ UNCHANGED <<nextJob, balance, powerLogs, Clients, now, notifyQueue>>
    /\ UNCHANGED <<dlItems, wsSent>>
    /\ UNCHANGED <<poolVars, queueVars, syncVars, notifyVars>>

\* cli.Send(sd.Finished): the messages handed to the socket of v's owner
FinishedSendsTwice(v) ==
    <<[UserId |-> v.UserId, Message |-> Finished],
      [UserId |-> v.UserId, Message |-> Finished]>>
FinishedSendsToJob(v) == <<[UserId |-> v.Id, Message |-> Finished]>>
FinishedSends(v) == <<[UserId |-> v.UserId, Message |-> Finished]>>

\* cli := p.Clients.Get(v.UserId); continue when there is no connection
DlGet ==
    /\ dlPc = "notify"
    /\ IF Head(dlItems).UserId \notin Clients
       THEN /\ dlPc' = "loop"
            /\ dlItems' = Tail(dlItems)
       ELSE /\ dlPc' = "send"
            /\ UNCHANGED dlItems
    /\ UNCHANGED <<storeVars, Clients, now, failures, notifyQueue, wsSent>>
    /\ UNCHANGED <<poolVars, queueVars, syncVars, notifyVars>>

\* err = cli.Send(sd.Finished), on the connection Get found, registered still
\* or not
DlSend ==
    /\ dlPc = "send"
    /\ \E send \in Outcomes :
         /\ failures + Cost(send) <= MaxFailures
         /\ failures' = failures + Cost(send)
    /\ wsSent' = FinishedSends(Head(dlItems))
    /\ dlPc' = "sent"
    /\ UNCHANGED <<storeVars, Clients, now, notifyQueue, dlItems>>
    /\ UNCHANGED <<poolVars, queueVars, syncVars, notifyVars>>

\* Send has returned: the iteration ends, whatever Send answered
DlSent ==
    /\ dlPc = "sent"
    /\ dlPc' = "loop"
    /\ dlItems' = Tail(dlItems)
    /\ wsSent' = <<>>
    /\ UNCHANGED <<storeVars, Clients, now, failures, notifyQueue>>
    /\ UNCHANGED <<poolVars, queueVars, syncVars, notifyVars>>

\* the range is exhausted: time.Sleep(time.Second * 5), then the next pass
DlSleep ==
    /\ dlPc = "loop"
    /\ dlItems = <<>>
    /\ dlPc' = "scan"
    /\ UNCHANGED <<storeVars, Clients, now, failures, notifyQueue>>
    /\ UNCHANGED <<dlItems, wsSent>>
    /\ UNCHANGED <<poolVars, queueVars, syncVars, notifyVars>>

(***************************************************************************)
(* CheckTaskNotify: the notification fan-out loop.  message is the loop's  *)
(* local; LPop, Clients.Get and Send are one action each.  The connection  *)
(* Get found is the one of message.UserId: the position "send" stands for  *)
(* the local cli.                                                          *)
(***************************************************************************)
\* err := p.notifyQueue.LPop(&message); an error leaves the loop at its top
NotifyPop ==
    /\ notifyPc = "pop"
    /\ \E res \in Outcomes :
         /\ failures + Cost(res) <= MaxFailures
         /\ failures' = failures + Cost(res)
         /\ IF res = "err"
            THEN UNCHANGED <<notifyQueue, notifyPc, message>>
            ELSE /\ notifyQueue # <<>>
                 /\ message' = Head(notifyQueue)
                 /\ notifyQueue' = Tail(notifyQueue)
                 /\ notifyPc' = "get"
    /\ UNCHANGED <<storeVars, Clients, now>>
    /\ UNCHANGED <<poolVars, queueVars, syncVars, dlVars>>

\* what the continue of line 95 leaves on the queue: the message is not put
\* back
AfterDropRequeueing(queue, m) == Append(queue, m)
AfterDrop(queue, m) == queue

\* cli := p.Clients.Get(message.UserId); cli == nil: continue, to the top of
\* the loop
NotifyGet ==
    /\ notifyPc = "get"
    /\ IF message.UserId \notin Clients
       THEN /\ notifyPc' = "pop"
            /\ message' = Nil
            /\ notifyQueue' = AfterDrop(notifyQueue, message)
       ELSE /\ notifyPc' = "send"
            /\ UNCHANGED <<message, notifyQueue>>
    /\ UNCHANGED <<storeVars, Clients, now, failures>>
    /\ UNCHANGED <<poolVars, queueVars, syncVars, dlVars>>

\* err = cli.Send(message.Message), on the connection Get found, registered
\* still or not; the iteration is over whatever Send answered
NotifySend ==
    /\ notifyPc = "send"
    /\ \E send \in Outcomes :
         /\ failures + Cost(send) <= MaxFailures
         /\ failures' = failures + Cost(send)
    /\ notifyPc' = "pop"
    /\ message' = Nil
    /\ UNCHANGED <<storeVars, Clients, now, notifyQueue>>
    /\ UNCHANGED <<poolVars, queueVars, syncVars, dlVars>>

(***************************************************************************)
(* The task queue: PushTask and the workers' pops.                         *)
(***************************************************************************)
\* p.taskQueue.RPush(task)
RPushTwice(queue, task) == queue \o <<task, task>>
RPush(queue, task) == Append(queue, task)

\* a PushTask that turns the task away while no worker is registered
PushTaskIfAvailable ==
    /\ HasAvailableService
    /\ nextTask <= MaxTasks
    /\ \E u \in UserIds :
         taskQueue' = RPush(taskQueue, [Id |-> nextTask, UserId |-> u])
    /\ nextTask' = nextTask + 1
    /\ UNCHANGED <<delivered, notifyQueue, storeVars, Clients, now, failures>>
    /\ UNCHANGED <<poolVars, syncVars, dlVars, notifyVars>>

PushTask ==
    /\ nextTask <= MaxTasks
    /\ \E u \in UserIds :
         taskQueue' = RPush(taskQueue, [Id |-> nextTask, UserId |-> u])
    /\ nextTask' = nextTask + 1
    /\ UNCHANGED <<delivered, notifyQueue, storeVars, Clients, now, failures>>
    /\ UNCHANGED <<poolVars, syncVars, dlVars, notifyVars>>

\* the consume loop of the worker named s pops the head of the task queue
WorkerPop ==
    /\ taskQueue # <<>>
    /\ \E i \in 1..Len(services) :
         delivered' = [delivered EXCEPT ![services[i]] = Append(@, Head(taskQueue))]
    /\ taskQueue' = Tail(taskQueue)
    /\ UNCHANGED <<nextTask, notifyQueue, storeVars, Clients, now, failures>>
    /\ UNCHANGED <<poolVars, syncVars, dlVars, notifyVars>>

(***************************************************************************)
(* Specifications.                                                         *)
(***************************************************************************)
Range(f) == {f[i] : i \in DOMAIN f}

\* the state the constructor and the start of the loops leave, for appConfig c
InitWith(c) ==
    /\ cfg = c
    /\ services = NewServicePool(c)
    /\ taskQueue = <<>>
    /\ notifyQueue = <<>>
    /\ nextTask = 1
    /\ delivered = [s \in Range(NewServicePool(c)) |-> <<>>]
    /\ jobs = <<>>
    /\ nextJob = 1
    /\ balance = [u \in ExistingUsers |-> InitPower]
    /\ powerLogs = <<>>
    /\ Clients = {}
    /\ now = 0
    /\ failures = 0
    /\ syncPc = "scan"
    /\ syncItems = <<>>
    /\ syncUser = Nil
    /\ dlPc = "scan"
    /\ dlItems = <<>>
    /\ wsSent = <<>>
    /\ notifyPc = "pop"
    /\ message = Nil

AllConfigs ==
    [plus : SeqsUpTo(ConfigEntries, MaxConfigs),
     proxy : SeqsUpTo(ConfigEntries, MaxConfigs)]

\* the configuration the loops run under: plus worker 0 is registered, the
\* proxy entry is disabled, so that jobs of channel proxy 0 have no worker
LoopConfigs ==
    {[plus |-> <<[Enabled |-> TRUE, ValidApiURL |-> TRUE]>>,
      proxy |-> <<[Enabled |-> FALSE, ValidApiURL |-> TRUE]>>]}

Init == \E c \in LoopConfigs : InitWith(c)

Next ==
    \/ CreateJob
    \/ JobProgress
    \/ Connect
    \/ Disconnect
    \/ Tick
    \/ SyncScan
    \/ SyncDelete
    \/ SyncRefund
    \/ SyncFirst
    \/ SyncCreate
    \/ SyncNotify
    \/ SyncSleep
    \/ DlScan
    \/ DlSkip
    \/ DlPutImg
    \/ DlFailed
    \/ DlUpdates
    \/ DlGet
    \/ DlSend
    \/ DlSent
    \/ DlSleep
    \/ NotifyPop
    \/ NotifyGet
    \/ NotifySend

Spec == Init /\ [][Next]_vars

\* construction from every configuration, then the traffic of the task queue
PoolInit == \E c \in AllConfigs : InitWith(c)

PoolNext ==
    \/ PushTask
    \/ WorkerPop

PoolSpec == PoolInit /\ [][PoolNext]_vars

(***************************************************************************)
(* Vocabulary of the properties.                                           *)
(***************************************************************************)
Last(q) == q[Len(q)]

\* the PowerLog rows written for job j
RefundsOf(j) == Cardinality({i \in DOMAIN powerLogs : powerLogs[i].TaskId = j})

\* the largest power a job carries
MaxPower == CHOOSE p \in Powers : \A q \in Powers : q <= p

PendingArchival(job) ==
    job.Progress = ProgressDone /\ job.OrgURL # "" /\ job.ImgURL = ""

\* this step is the reconciliation goroutine starting the iteration on
\* Head(syncItems): SyncDelete or SyncNotify
SyncIterates ==
    syncPc = "loop" /\ syncItems # <<>> /\ syncVars' # syncVars

\* this step is SyncDelete, SyncRefund, SyncCreate
SyncDeleteTaken == syncPc = "loop" /\ syncPc' = "refund"
SyncRefundTaken == syncPc = "refund" /\ syncPc' # "refund"
SyncCreateTaken == syncPc = "create" /\ syncPc' # "create"

\* this step is the archival goroutine starting the iteration on
\* Head(dlItems): DlSkip or DlPutImg
DlIterates ==
    dlPc = "loop" /\ dlItems # <<>> /\ dlVars' # dlVars

\* this step is DlGet: the lookup of the owner's connection after an archive
DlGetTaken == dlPc = "notify" /\ dlPc' # "notify"

\* this step is DlSend: the message is handed to the connection found
DlSendTaken == dlPc = "send" /\ dlPc' # "send"

\* this step is DlGet after an archive that succeeded: the image was put and
\* the row carries its location
ArchiveSucceeded ==
    /\ DlGetTaken
    /\ Head(dlItems).Id \in DOMAIN jobs
    /\ jobs[Head(dlItems).Id].ImgURL = Head(dlItems).ImgURL

\* the balance increment of this step landed on the owner of job
RefundLanded(job) ==
    /\ job.UserId \in DOMAIN balance
    /\ balance' = [balance EXCEPT ![job.UserId] = @ + job.Power]

(***************************************************************************)
(* C1. No job is refunded more than once: the balance is credited at most  *)
(* once per job whatever the store's calls answer, so no job has two log   *)
(* rows and no balance exceeds its start plus one refund per job inserted. *)
(* Fails: the result of Delete is not consulted, so a job whose delete     *)
(* failed is credited by this pass and again by the next one.              *)
(***************************************************************************)
C1_NoDoubleRefund ==
    /\ \A j \in 1..MaxJobs : RefundsOf(j) <= 1
    /\ \A u \in DOMAIN balance :
         balance[u] <= InitPower + (nextJob - 1) * MaxPower

(***************************************************************************)
(* C2. A job with progress < 100 older than 30 minutes is eventually       *)
(* deleted by a pass, and the balance of its owner, if the owner exists,   *)
(* grows by exactly the job's power. A deleted job is never selected       *)
(* again, so the refund has to land in the iteration that deleted the row. *)
(* Fails: when the increment errors the row is gone and nothing is         *)
(* credited.                                                               *)
(***************************************************************************)
C2_TimedOutJobRefunded ==
    [][(/\ SyncRefundTaken
        /\ Head(syncItems).Progress < ProgressDone
        /\ now - Head(syncItems).CreatedAt > TimeoutBudget
        /\ Head(syncItems).Id \notin DOMAIN jobs
        /\ Head(syncItems).UserId \in DOMAIN balance)
       => RefundLanded(Head(syncItems))]_vars

(***************************************************************************)
(* C3. A refund of power P to a user of balance B leaves the balance B + P *)
(* and appends a log row of amount P, mark add, model mid-journey and      *)
(* balance B + P, the balance the increment left.                          *)
(* Fails: the row is built from the user read back after the increment,    *)
(* plus P once more, so its balance field is B + 2P.                       *)
(***************************************************************************)
C3_RefundLogBalance ==
    [][/\ SyncRefundTaken /\ balance' # balance
         => RefundLanded(Head(syncItems))
       /\ SyncCreateTaken /\ powerLogs' # powerLogs
         => /\ Len(powerLogs') = Len(powerLogs) + 1
            /\ Last(powerLogs').Amount = Head(syncItems).Power
            /\ Last(powerLogs').Mark = PowerAdd
            /\ Last(powerLogs').Model = ModelTag
            /\ Last(powerLogs').Balance = balance[Head(syncItems).UserId]]_vars

(***************************************************************************)
(* C4. A log row is appended for an expired job iff the increment landed   *)
(* with at least one affected row; when it affects no row or errors, the   *)
(* job row is still deleted and no log row is written.                     *)
(* Fails both ways: the result of Create is not consulted, so an increment *)
(* that landed can stay without its row; and the credit is attempted even  *)
(* when the delete failed, so the job row can still be there after an      *)
(* increment that did not land.                                            *)
(***************************************************************************)
C4_LogIffRefundLanded ==
    [][/\ SyncRefundTaken
         => (syncPc' = "first" <=> RefundLanded(Head(syncItems)))
       /\ SyncRefundTaken /\ ~RefundLanded(Head(syncItems))
         => /\ Head(syncItems).Id \notin DOMAIN jobs'
            /\ powerLogs' = powerLogs
       /\ SyncCreateTaken => Len(powerLogs') = Len(powerLogs) + 1
       /\ powerLogs' # powerLogs => SyncCreateTaken]_vars

(***************************************************************************)
(* C5. A job whose progress is -1 is expired by the pass that scans it     *)
(* whatever its age: its iteration goes the way of a timed-out job (the    *)
(* delete, then the refund, then the log row, each landing unless that     *)
(* store call fails or the owner has no row) and no progress check is      *)
(* requested from a worker for it.                                         *)
(***************************************************************************)
C5_FailedJobExpires ==
    [][/\ SyncIterates /\ Head(syncItems).Progress = ProgressFailed
         => /\ syncPc' = "refund"
            /\ syncItems' = syncItems
            /\ Head(syncItems).Id \in DOMAIN jobs' => failures' > failures
            /\ UNCHANGED <<notifyQueue, balance, powerLogs>>
       /\ SyncRefundTaken /\ Head(syncItems).Progress = ProgressFailed
         => /\ UNCHANGED <<notifyQueue, jobs, powerLogs>>
            /\ \/ /\ RefundLanded(Head(syncItems))
                  /\ syncPc' = "first"
               \/ /\ balance' = balance
                  /\ syncPc' = "loop"
                  /\ \/ Head(syncItems).UserId \notin DOMAIN balance
                     \/ failures' > failures
       /\ SyncCreateTaken /\ Head(syncItems).Progress = ProgressFailed
         => /\ UNCHANGED <<notifyQueue, jobs, balance>>
            /\ syncItems' = Tail(syncItems)
            /\ \/ /\ Len(powerLogs') = Len(powerLogs) + 1
                  /\ Last(powerLogs').Amount = Head(syncItems).Power
                  /\ Last(powerLogs').TaskId = Head(syncItems).Id
               \/ /\ powerLogs' = powerLogs
                  /\ failures' > failures]_vars

\* job 1 was deleted, refunded and logged while the clock still showed its
\* insertion time: it expired young, by its progress of -1
C5_Witness ==
    /\ now = 0
    /\ nextJob > 1
    /\ 1 \notin DOMAIN jobs
    /\ RefundsOf(1) = 1
    /\ failures = 0

(***************************************************************************)
(* C6. Each successful archive triggers exactly one "finished"             *)
(* notification for the owner, connected or not.                           *)
(* Fails: without a registered connection nothing is sent.                 *)
(***************************************************************************)
C6_ExactlyOneFinished ==
    [][ArchiveSucceeded => dlPc' = "send"]_vars

\* C6 as amended: after a successful archive the loop looks the owner's
\* connection up once; when there is one at that moment it hands exactly one
\* "finished" message to it, registered still or not, and when there is none
\* it sends nothing; nothing else sends for the job
C6_OneFinishedIfConnected ==
    [][/\ DlGetTaken
         => /\ dlPc' = IF Head(dlItems).UserId \in Clients THEN "send" ELSE "loop"
            /\ dlPc' = "send" => dlItems' = dlItems
            /\ dlPc' = "loop" => dlItems' = Tail(dlItems)
            /\ wsSent' = wsSent
       /\ DlSendTaken
         => /\ Len(wsSent') = 1
            /\ \A i \in DOMAIN wsSent' : wsSent'[i].Message = Finished
            /\ dlPc' = "sent"
            /\ dlItems' = dlItems
       /\ wsSent' # wsSent /\ wsSent' # <<>> => DlSendTaken
       /\ dlPc' = "send" /\ dlPc # "send" => dlPc = "notify"
       /\ dlPc' = "notify" /\ dlPc # "notify"
         => dlPc = "update" /\ dlItems' = dlItems
       /\ dlPc' = "update" /\ dlPc # "update"
         => dlPc = "loop" /\ Tail(dlItems') = Tail(dlItems)
       /\ dlPc = "update" /\ dlPc' # "update" => dlPc' = "notify"
       /\ dlPc = "sent" /\ dlPc' # "sent"
         => /\ dlPc' = "loop"
            /\ dlItems' = Tail(dlItems)
            /\ wsSent' = <<>>]_vars

\* an archive that succeeded with the owner connected: the row carries its
\* img URL and the one message has been handed to the owner's connection
C6_Witness ==
    /\ dlPc = "sent"
    /\ wsSent = <<[UserId |-> Head(dlItems).UserId, Message |-> Finished]>>
    /\ Head(dlItems).Id \in DOMAIN jobs
    /\ jobs[Head(dlItems).Id].ImgURL # ""
    /\ failures = 0

(***************************************************************************)
(* C7. A successful archive of a completed job enqueues a "finished"       *)
(* notification for the owner on the notify queue.                         *)
(* Fails: the archival loop never writes to the notify queue.              *)
(***************************************************************************)
C7_FinishedEnqueued ==
    [][ArchiveSucceeded
       => \E i \in DOMAIN notifyQueue' :
            notifyQueue'[i] = [UserId |-> Head(dlItems).UserId,
                               Message |-> Finished]]_vars

\* C7 as amended: no step of the archival loop writes to the notify queue,
\* which never carries a "finished" message; after a successful archive the
\* message is handed straight to the connection of the job's owner, when the
\* lookup finds one registered
C7_FinishedSentDirectly ==
    /\ [](\A i \in DOMAIN notifyQueue : notifyQueue[i].Message # Finished)
    /\ [][/\ dlVars' # dlVars => notifyQueue' = notifyQueue
          /\ DlGetTaken /\ Head(dlItems).UserId \in Clients => dlPc' = "send"
          /\ DlSendTaken
            => /\ wsSent' # <<>>
               /\ \A i \in DOMAIN wsSent' :
                    wsSent'[i] = [UserId |-> Head(dlItems).UserId,
                                  Message |-> Finished]]_vars

\* job 1 archived by a worker-owned (private) archive, its owner notified
\* directly, the notify queue empty
C7_Witness ==
    /\ dlPc = "sent"
    /\ Head(dlItems).Id = 1
    /\ notifyQueue = <<>>
    /\ 1 \in DOMAIN jobs
    /\ jobs[1].ImgURL = PrivateImage
    /\ wsSent = <<[UserId |-> jobs[1].UserId, Message |-> Finished]>>

(***************************************************************************)
(* C8. Every job pending archival eventually has its img URL set by the    *)
(* archival loop. A row that is removed while it is pending can never get  *)
(* one, so the claim needs a pending row to stay in the store.             *)
(* Fails: a pass that selected the job before it completed deletes it      *)
(* afterwards (the race of C19).                                           *)
(***************************************************************************)
C8_PendingJobKept ==
    [][\A j \in DOMAIN jobs : PendingArchival(jobs[j]) => j \in DOMAIN jobs']_vars

(***************************************************************************)
(* C9. Each pushed task is delivered to exactly one worker: it is never    *)
(* popped by two workers and never lost, it waits in the queue until one   *)
(* worker pops it.                                                         *)
(* Not settled by the source: the pop is made by the workers' consume loop *)
(* on the queue's own LPop, neither of which is in pool.go.  WorkerPop     *)
(* takes the spec's word that a pop moves the head to one worker in one    *)
(* step, so the invariant below holds by that assumption; the pool's part, *)
(* one shared queue and one RPush per PushTask, is what C11 checks.        *)
(***************************************************************************)
Holders(t) ==
    {<<s, i>> \in (DOMAIN delivered) \X (1..(MaxTasks + 1)) :
        i \in DOMAIN delivered[s] /\ delivered[s][i].Id = t}

Waiting(t) == {i \in DOMAIN taskQueue : taskQueue[i].Id = t}

C9_ExactlyOneConsumer ==
    \A t \in 1..(nextTask - 1) :
        Cardinality(Holders(t)) + Cardinality(Waiting(t)) = 1

\* two workers have each popped a task of the same queue
C9_Witness ==
    \E s1, s2 \in DOMAIN delivered :
        s1 # s2 /\ delivered[s1] # <<>> /\ delivered[s2] # <<>>

(***************************************************************************)
(* C10. HasAvailableService() is true iff a worker is registered, that is  *)
(* iff some configured entry passes the constructor's filter, and the      *)
(* registry, hence the answer, never changes after construction.           *)
(***************************************************************************)
PassesFilter ==
    \/ \E k \in DOMAIN cfg.plus : cfg.plus[k].Enabled /\ cfg.plus[k].ValidApiURL
    \/ \E k \in DOMAIN cfg.proxy : cfg.proxy[k].Enabled

C10_AvailableIffRegistered ==
    /\ [](HasAvailableService <=> PassesFilter)
    /\ [][services' = services /\ HasAvailableService' = HasAvailableService]_vars

\* a pool whose only entries were filtered out, with a task pushed to it
C10_Witness ==
    /\ ~HasAvailableService
    /\ Len(cfg.plus) + Len(cfg.proxy) > 0
    /\ taskQueue # <<>>

(***************************************************************************)
(* C11. PushTask never refuses a task: in every state, with or without a   *)
(* registered worker, it can be taken, and the step appends exactly one    *)
(* task at the tail of the task queue and leaves the notify queue, the     *)
(* job store, the balances, the worker registry and the connection         *)
(* registry as they were.  (nextTask <= MaxTasks only bounds the run.)     *)
(***************************************************************************)
C11_PushTaskNeverRefuses ==
    /\ [](nextTask <= MaxTasks => ENABLED PushTask)
    /\ [][nextTask' # nextTask
            => /\ Len(taskQueue') = Len(taskQueue) + 1
               /\ \A i \in DOMAIN taskQueue : taskQueue'[i] = taskQueue[i]
               /\ Last(taskQueue').Id = nextTask
               /\ UNCHANGED <<notifyQueue, jobs, balance, powerLogs>>
               /\ UNCHANGED <<services, delivered, Clients>>]_vars

\* two tasks accepted in order while no worker is registered
C11_Witness ==
    /\ services = <<>>
    /\ Len(taskQueue) >= 2
    /\ taskQueue[1].Id = 1
    /\ taskQueue[2].Id = 2

(***************************************************************************)
(* C12. A lookup by a channel id no registered worker carries answers "no  *)
(* worker", never an error: getService returns nil for it, the             *)
(* reconciliation iteration on an unexpired job of that channel requests   *)
(* no progress check and changes nothing, and the archival iteration on a  *)
(* job of that channel archives through the fallback (public) path, with   *)
(* no hash, instead of failing.                                            *)
(***************************************************************************)
C12_UnregisteredChannelIsAbsent ==
    /\ [](\A ch \in ChannelIds : ch \notin Range(services) => getService(ch) = Nil)
    /\ [][SyncIterates /\ Head(syncItems).ChannelId \notin Range(services)
            /\ ~IsExpired(Head(syncItems), now)
          => /\ syncPc' = "loop"
             /\ syncItems' = Tail(syncItems)
             /\ UNCHANGED <<notifyQueue, jobs, balance, powerLogs, failures,
                            Clients, dlVars, notifyVars>>]_vars
    /\ [][DlIterates /\ Head(dlItems).ChannelId \notin Range(services)
            /\ Head(dlItems).OrgURL # ""
          => /\ dlPc' \in {"update", "failed"}
             /\ failures' = failures => dlPc' = "update"
             /\ jobs' = jobs
             /\ Head(dlItems').Hash = Head(dlItems).Hash
             /\ dlPc' = "update" => Head(dlItems').ImgURL = PublicImage]_vars
    /\ [][dlPc = "update" /\ dlPc' # "update"
            /\ Head(dlItems).ChannelId \notin Range(services)
          => /\ \A j \in DOMAIN jobs' :
                  /\ jobs'[j].ImgURL \in {jobs[j].ImgURL, PublicImage}
                  /\ jobs'[j].Hash = jobs[j].Hash
             /\ failures' = failures /\ Head(dlItems).Id \in DOMAIN jobs
                => jobs'[Head(dlItems).Id].ImgURL = PublicImage]_vars

\* a job of the channel without a worker was archived through the fallback
\* path, and another one sits unexpired in the current reconciliation pass
C12_Witness ==
    /\ \E j \in DOMAIN jobs :
         /\ jobs[j].ChannelId \notin Range(services)
         /\ jobs[j].ImgURL = PublicImage
         /\ jobs[j].Hash = ""
    /\ \E j \in DOMAIN jobs :
         /\ jobs[j].ChannelId \notin Range(services)
         /\ jobs[j].Progress = 0
         /\ ~IsExpired(jobs[j], now)
         /\ syncPc = "loop"
         /\ syncItems = <<>>
         /\ notifyQueue = <<>>

(***************************************************************************)
(* C13. A notification whose user has no live connection, or whose send    *)
(* fails, is dropped: the fan-out iteration removes it from the notify     *)
(* queue without delivering or re-queueing it, leaves the connection       *)
(* registry, the job store, the balances and the power log unchanged, and  *)
(* the loop stays able to pop the messages that follow.                    *)
(***************************************************************************)
C13_UndeliverableDropped ==
    /\ [](notifyPc = "pop" /\ notifyQueue # <<>>
            => ENABLED (NotifyPop /\ notifyPc' = "get"))
    /\ [](notifyPc # "pop" => ENABLED (NotifyGet \/ NotifySend))
    /\ [][/\ notifyPc = "pop" /\ notifyPc' # "pop"
            => /\ notifyQueue # <<>>
               /\ message' = Head(notifyQueue)
               /\ notifyQueue' = Tail(notifyQueue)
               /\ notifyPc' = "get"
          /\ notifyPc = "get" /\ notifyPc' # "get"
            => /\ notifyPc' = "pop" <=> message.UserId \notin Clients
               /\ notifyPc' \in {"pop", "send"}
               /\ message' = IF notifyPc' = "pop" THEN Nil ELSE message
               /\ notifyQueue' = notifyQueue
               /\ UNCHANGED <<Clients, jobs, balance, powerLogs, failures,
                              syncVars, dlVars>>
          /\ notifyPc = "send" /\ notifyPc' # "send"
            => /\ notifyPc' = "pop"
               /\ message' = Nil
               /\ notifyQueue' = notifyQueue
               /\ UNCHANGED <<Clients, jobs, balance, powerLogs, syncVars, dlVars>>
          /\ notifyVars' # notifyVars
            => Len(notifyQueue') <= Len(notifyQueue)]_vars

\* a message has been popped whose user has no connection, so that the lookup
\* drops it, and the next message, for a connected user, is at the head of the
\* queue for the loop to pop
C13_Witness ==
    /\ notifyPc = "get"
    /\ message.UserId \notin Clients
    /\ notifyQueue # <<>>
    /\ Head(notifyQueue).UserId \in Clients

(***************************************************************************)
(* C14. Construction registers a worker for an entry of either list if and *)
(* only if the entry is enabled and passes the URL validation; a disabled  *)
(* or invalid entry is skipped and the entries after it are still          *)
(* registered.                                                             *)
(* As stated it fails: the second loop validates no URL, so an enabled     *)
(* proxy entry is registered whatever its URL.                             *)
(***************************************************************************)
C14_RegisteredIffEnabledAndValid ==
    /\ \A k \in DOMAIN cfg.plus :
         PlusName(k - 1) \in Range(services)
           <=> cfg.plus[k].Enabled /\ cfg.plus[k].ValidApiURL
    /\ \A k \in DOMAIN cfg.proxy :
         ProxyName(k - 1) \in Range(services)
           <=> cfg.proxy[k].Enabled /\ cfg.proxy[k].ValidApiURL

(***************************************************************************)
(* C14, amended. A plus entry is registered if and only if it is enabled   *)
(* and passes the URL validation, a proxy entry if and only if it is       *)
(* enabled; every other entry is skipped, the entries after it are still   *)
(* registered, each once, plus workers first and in configuration order.   *)
(***************************************************************************)
C14_RegisteredIffPassesItsLoop ==
    /\ \A k \in DOMAIN cfg.plus :
         PlusName(k - 1) \in Range(services)
           <=> cfg.plus[k].Enabled /\ cfg.plus[k].ValidApiURL
    /\ \A k \in DOMAIN cfg.proxy :
         ProxyName(k - 1) \in Range(services) <=> cfg.proxy[k].Enabled
    /\ Len(services) =
         Cardinality({k \in DOMAIN cfg.plus :
                        cfg.plus[k].Enabled /\ cfg.plus[k].ValidApiURL})
         + Cardinality({k \in DOMAIN cfg.proxy : cfg.proxy[k].Enabled})
    /\ \A i, j \in DOMAIN services :
         i < j => \/ services[i][1] = "mj-plus-service"
                     /\ services[j][1] = "mj-proxy-service"
                  \/ services[i][1] = services[j][1]
                     /\ services[i][2] < services[j][2]

\* the first plus entry failed validation, the second one is registered, the
\* first proxy entry is disabled and the second one is registered
C14_Witness ==
    /\ Len(cfg.plus) = 2
    /\ cfg.plus[1].Enabled /\ ~cfg.plus[1].ValidApiURL
    /\ Len(cfg.proxy) = 2
    /\ ~cfg.proxy[1].Enabled
    /\ services = <<PlusName(1), ProxyName(1)>>

(***************************************************************************)
(* C15. Expiry and archival never act on the same job: whatever the        *)
(* interleaving of the two loops and of the workers' progress writes, a    *)
(* job the archival loop has selected or archived is not deleted or        *)
(* refunded by reconciliation, and a job reconciliation deleted is not     *)
(* among the jobs of an archival pass.                                     *)
(* Fails: reconciliation tests its snapshot, so a job completed after the  *)
(* scan is selected by archival and then deleted and refunded.             *)
(***************************************************************************)
C15_ExpiryArchivalDisjoint ==
    /\ \A i \in DOMAIN dlItems :
         dlItems[i].Id \in DOMAIN jobs /\ RefundsOf(dlItems[i].Id) = 0
    /\ \A j \in DOMAIN jobs : jobs[j].ImgURL # "" => RefundsOf(j) = 0

C17_RunningJobOnlyChecked ==
    [][SyncIterates /\ Head(syncItems).Progress >= 0
         /\ Head(syncItems).Progress < ProgressDone
         /\ now - Head(syncItems).CreatedAt <= TimeoutBudget
       => /\ syncPc' = "loop"
          /\ syncItems' = Tail(syncItems)
          /\ UNCHANGED <<jobs, balance, powerLogs, failures>>
          /\ UNCHANGED <<Clients, taskQueue, dlVars, notifyVars>>
          /\ IF Head(syncItems).ChannelId \in Range(services)
             THEN notifyQueue' =
                    Append(notifyQueue, [UserId |-> Head(syncItems).UserId,
                                         Message |-> Running])
             ELSE notifyQueue' = notifyQueue]_vars

\* a job exactly as old as the budget went through an iteration: the pass is
\* past it, the job is stored as it was, no refund, its check requested
C17_Witness ==
    /\ now = TimeoutBudget
    /\ syncPc = "loop"
    /\ syncItems = <<>>
    /\ DOMAIN jobs = {1}
    /\ jobs[1].CreatedAt = 0
    /\ jobs[1].Progress = 0
    /\ jobs[1].ChannelId \in Range(services)
    /\ notifyQueue = <<[UserId |-> jobs[1].UserId, Message |-> Running]>>
    /\ powerLogs = <<>>
    /\ balance = [u \in ExistingUsers |-> InitPower]

(***************************************************************************)
(* C18. Each loop waits between two scans: the reconciliation loop sleeps  *)
(* 10s and the archival loop 5s after every scan, a scan whose query       *)
(* failed included, so neither loop is ever back at the top of its loop    *)
(* without having slept since its last scan.                               *)
(* Fails: a failed query `continue`s to the next scan past the sleep.      *)
(***************************************************************************)
C18_WaitAfterEveryScan == syncPc # "retry" /\ dlPc # "retry"

(***************************************************************************)
(* C19. Reconciliation never deletes or refunds a job whose stored         *)
(* progress is 100 when the delete is issued: an iteration on such a job   *)
(* leaves its row, the balances and the power log alone.                   *)
(* Fails: the iteration tests the row as its scan read it and deletes by   *)
(* primary key, whatever the row holds by then.                            *)
(***************************************************************************)
C19_CompletedJobNotExpired ==
    [][(SyncDeleteTaken \/ SyncRefundTaken \/ SyncCreateTaken)
         /\ Head(syncItems).Id \in DOMAIN jobs
         /\ jobs[Head(syncItems).Id].Progress = ProgressDone
       => /\ Head(syncItems).Id \in DOMAIN jobs'
          /\ balance' = balance
          /\ powerLogs' = powerLogs]_vars

(***************************************************************************)
(* C20. A balance is credited for a job only if the job's deletion          *)
(* succeeded: in every state in which a refund of a job has been credited  *)
(* (the iteration is past its increment, or the job has its log row), the  *)
(* job's row is absent from the store.                                     *)
(* Fails: the result of Delete is not consulted before the increment.      *)
(***************************************************************************)
C20_RefundedJobAbsent ==
    /\ syncPc \in {"first", "create"} => Head(syncItems).Id \notin DOMAIN jobs
    /\ \A j \in 1..MaxJobs : RefundsOf(j) > 0 => j \notin DOMAIN jobs

====
